---------------------------- MODULE Spec2Model ----------------------------
(***************************************************************************)
(* Model of excel_to_uvm_ral.py: the field parser parse_field and the      *)
(* single-pass generator excel_to_uvm_ral that turns a register table     *)
(* into UVM RAL source text.                                               *)
(*                                                                         *)
(* A Python str is a sequence of one-character strings.  A spreadsheet     *)
(* cell is a record [isna, v]: isna is pandas' NaN (an empty cell).        *)
(* An output line is a tuple whose first element is the f.write template   *)
(* and whose other elements are the values substituted into it.            *)
(***************************************************************************)
EXTENDS Integers, Sequences, FiniteSets, TLC

VARIABLES
    df_header,      \* df.iloc[0]: the raw header cells, as read from the sheet
    df,             \* the data rows df[1:], in sheet order
    pc,             \* position in excel_to_uvm_ral
    row_i,          \* index of the next row df.iterrows() yields
    current_reg,    \* the open register's name, NoReg for Python's None
    fields,         \* field texts collected for the open register
    read_write,     \* loop variable: Read/Write cell of the row last read
    default_value,  \* loop variable: Default value cell of the row last read
    opened,         \* whether open(output_file, 'w') has been executed
    out,            \* the lines written to the output file, in order
    printed,        \* what print() has written
    field_str,      \* parse_field: its argument
    result          \* parse_field: its return value

vars == <<df_header, df, pc, row_i, current_reg, fields, read_write,
          default_value, opened, out, printed, field_str, result>>

(***************************************************************************)
(* Bounds of the model.                                                    *)
(***************************************************************************)
MaxRows == 3
MaxBit == 15

(***************************************************************************)
(* Characters and str methods.                                             *)
(***************************************************************************)
UpperCase == <<"A","B","C","D","E","F","G","H","I","J","K","L","M",
               "N","O","P","Q","R","S","T","U","V","W","X","Y","Z">>
LowerCase == <<"a","b","c","d","e","f","g","h","i","j","k","l","m",
               "n","o","p","q","r","s","t","u","v","w","x","y","z">>
DigitChars == <<"0","1","2","3","4","5","6","7","8","9">>

Range(s) == {s[k] : k \in DOMAIN s}

WhiteSpace == {" ", "\t", "\n", "\r"}
Digits == Range(DigitChars)
IdentStart == Range(UpperCase) \cup Range(LowerCase) \cup {"_"}
IdentChars == IdentStart \cup Digits

\* str.lstrip() and str.rstrip()
RECURSIVE LStrip(_)
LStrip(s) == IF s # <<>> /\ Head(s) \in WhiteSpace THEN LStrip(Tail(s)) ELSE s

RECURSIVE RStrip(_)
RStrip(s) ==
    IF s # <<>> /\ s[Len(s)] \in WhiteSpace THEN RStrip(SubSeq(s, 1, Len(s) - 1)) ELSE s

\* str.strip(): drop leading and trailing whitespace.
Strip(s) == RStrip(LStrip(s))

LowerChar(c) ==
    IF \E k \in DOMAIN UpperCase : UpperCase[k] = c
    THEN LowerCase[CHOOSE k \in DOMAIN UpperCase : UpperCase[k] = c]
    ELSE c

\* str.lower()
Lower(s) == [k \in DOMAIN s |-> LowerChar(s[k])]

DigitVal(c) == (CHOOSE k \in DOMAIN DigitChars : DigitChars[k] = c) - 1

\* int() of a non-empty string of decimal digits.
RECURSIVE IntOf(_)
IntOf(s) ==
    IF s = <<>> THEN 0
    ELSE 10 * IntOf(SubSeq(s, 1, Len(s) - 1)) + DigitVal(s[Len(s)])

\* The index just after the longest run of characters of S that starts at i
\* (a greedy  [S]*  of the regular expression).
Span(s, i, S) ==
    CHOOSE j \in i..(Len(s) + 1) :
        /\ \A k \in i..(j-1) : s[k] \in S
        /\ (j = Len(s) + 1 \/ s[j] \notin S)

At(s, i) == IF i \in DOMAIN s THEN s[i] ELSE ""

(***************************************************************************)
(* parse_field.                                                            *)
(***************************************************************************)
\* re.match(r"([A-Za-z_][A-Za-z0-9_]*)(?:\s*\[(\d+):(\d+)\])?", field_str):
\* the groups of the match, has = FALSE for a group that did not take part.
ReMatch(s) ==
    IF At(s, 1) \notin IdentStart
    THEN [matched |-> FALSE,
          g1 |-> <<>>, has2 |-> FALSE, g2 |-> <<>>, has3 |-> FALSE, g3 |-> <<>>]
    ELSE LET e  == Span(s, 2, IdentChars)
             w  == Span(s, e, WhiteSpace)
             d1 == Span(s, w + 1, Digits)
             d2 == Span(s, d1 + 1, Digits)
             rng == /\ At(s, w) = "["
                    /\ d1 > w + 1
                    /\ At(s, d1) = ":"
                    /\ d2 > d1 + 1
                    /\ At(s, d2) = "]"
         IN [matched |-> TRUE,
             g1 |-> SubSeq(s, 1, e - 1),
             has2 |-> rng,
             g2 |-> IF rng THEN SubSeq(s, w + 1, d1 - 1) ELSE <<>>,
             has3 |-> rng,
             g3 |-> IF rng THEN SubSeq(s, d1 + 1, d2 - 1) ELSE <<>>]

\* The tuple (None, None, None, None).
NoneResult == [none |-> TRUE, field_name |-> <<>>, size |-> 0, lsb |-> 0, msb |-> 0]

\* size = msb - lsb + 1 if msb and lsb else 1
SizeOf(msb, lsb) == IF msb # 0 /\ lsb # 0 THEN msb - lsb + 1 ELSE 1

parse_field(s) ==
    LET match == ReMatch(s) IN
    IF match.matched
    THEN LET msb == IF match.has2 /\ match.g2 # <<>> THEN IntOf(match.g2) ELSE 0
             lsb == IF match.has3 /\ match.g3 # <<>> THEN IntOf(match.g3) ELSE 0
         IN [none |-> FALSE, field_name |-> Strip(match.g1),
             size |-> SizeOf(msb, lsb), lsb |-> lsb, msb |-> msb]
    ELSE NoneResult


(***************************************************************************)
(* Cells, columns and the inputs the model draws from.                     *)
(***************************************************************************)
Str(v) == [isna |-> FALSE, v |-> v]
NaN == [isna |-> TRUE, v |-> <<>>]
Num(n) == [isna |-> FALSE, v |-> n]
NumNaN == [isna |-> TRUE, v |-> 0]

\* pd.notna
notna(c) == ~c.isna

\* Series.fillna("").astype(str) on a column of text cells
fillna_str(c) == IF c.isna THEN Str(<<>>) ELSE c

COL_REGISTER_NAME == <<"R","e","g","i","s","t","e","r"," ","N","a","m","e">>
COL_OFFSET == <<"O","f","f","s","e","t">>
COL_READ_WRITE == <<"R","e","a","d","/","W","r","i","t","e">>
COL_FIELDS == <<"F","i","e","l","d","s">>
COL_DEFAULT_VALUE == <<"D","e","f","a","u","l","t"," ","v","a","l","u","e">>
COL_RESET_VALUE == <<"R","e","s","e","t"," ","v","a","l","u","e">>
COL_DESCRIPTION == <<"D","e","s","c","r","i","p","t","i","o","n">>

\* (mutant) Offset is not among the columns checked
required_columns_NoOffset ==
    <<COL_REGISTER_NAME, COL_READ_WRITE, COL_FIELDS,
      COL_DEFAULT_VALUE, COL_RESET_VALUE, COL_DESCRIPTION>>

required_columns ==
    <<COL_REGISTER_NAME, COL_OFFSET, COL_READ_WRITE, COL_FIELDS,
      COL_DEFAULT_VALUE, COL_RESET_VALUE, COL_DESCRIPTION>>

\* df.columns = df.iloc[0].str.strip(): a NaN header cell stays NaN.
StripHeader(h) == [k \in DOMAIN h |-> IF h[k].isna THEN h[k] ELSE Str(Strip(h[k].v))]

\* missing_columns = [col for col in required_columns if col not in df.columns]
IsMissing(col, columns) == ~\E k \in DOMAIN columns : columns[k] = Str(col)
missing_columns(columns) ==
    LET absent(col) == IsMissing(col, columns) IN SelectSeq(required_columns, absent)

\* Header rows of the sheet: complete (one cell padded, one empty cell, one
\* extra column), without Offset, without Fields and Description.
Pad(s) == <<" ">> \o s \o <<" ", " ">>
HeaderFull ==
    <<Str(COL_REGISTER_NAME), Str(Pad(COL_OFFSET)), Str(COL_READ_WRITE),
      Str(COL_FIELDS), NaN, Str(COL_DEFAULT_VALUE), Str(COL_RESET_VALUE),
      Str(COL_DESCRIPTION), Str(<<"N","o","t","e","s">>)>>
HeaderNoOffset ==
    <<Str(COL_REGISTER_NAME), Str(COL_READ_WRITE), Str(Pad(COL_FIELDS)),
      Str(COL_DEFAULT_VALUE), Str(COL_RESET_VALUE), Str(COL_DESCRIPTION)>>
HeaderNoFieldsNoDescription ==
    <<Str(COL_REGISTER_NAME), Str(COL_OFFSET), Str(COL_READ_WRITE),
      Str(COL_DEFAULT_VALUE), Str(COL_RESET_VALUE)>>
Headers == {HeaderFull, HeaderNoOffset, HeaderNoFieldsNoDescription}

\* Cells of the data rows.  The Offset, Reset value and Description cells are
\* read into locals that nothing uses, and are left out of the rows.
\* The tables of Spec vary the register names and the field texts; those of
\* SpecAccess vary the Read/Write and Default value cells as well.
RegisterNameCells == {NaN, Str(<<"A">>), Str(<<" ", "B">>)}
FieldsCells == {NaN, Str(<<"F"," ","[","2",":","1","]">>), Str(<<"G"," ","[","1",":","3","]">>), Str(<<"9">>)}
ReadWriteCells == {"RW", "RO"}
DefaultValueCells == {NumNaN, Num(5)}

Rows ==
    [register_name : RegisterNameCells, read_write : {"RW"},
     fields : FieldsCells, default_value : {Num(5)}]

AccessRows ==
    [register_name : RegisterNameCells, read_write : ReadWriteCells,
     fields : {NaN, Str(<<"F"," ","[","2",":","1","]">>)}, default_value : DefaultValueCells]

TablesOf(rows) == UNION {[1..n -> rows] : n \in 0..MaxRows}

\* Arguments of parse_field: an optional bad first character, an identifier,
\* optional blanks, nothing or a range or a broken range, optional trailing text.
RECURSIVE Dec(_)
Dec(n) == IF n < 10 THEN <<DigitChars[n + 1]>>
          ELSE Dec(n \div 10) \o <<DigitChars[(n % 10) + 1]>>

RangeText(msb, lsb) == <<"[">> \o Dec(msb) \o <<":">> \o Dec(lsb) \o <<"]">>

Identifiers == {<<"F">>, <<"B","U","F","F","E","R","_","S","I","Z","E">>, <<"_","q","9">>}
Gaps == {<<>>, <<" ">>}
Leads == {<<>>, <<"9">>, <<"[">>}
Trails == {<<>>, <<",","G">>}
RangeTexts == {RangeText(m, l) : m, l \in 0..MaxBit}
BrokenRanges == {<<>>, <<"[","1",":">>, <<"[",":","1","]">>, <<"[","1",";","2","]">>}

ParseInputs ==
    {<<>>} \cup
    {ld \o id \o gap \o rng \o tr :
        ld \in Leads, id \in Identifiers, gap \in Gaps,
        rng \in RangeTexts \cup BrokenRanges, tr \in Trails}

(***************************************************************************)
(* The lines excel_to_uvm_ral writes.                                      *)
(***************************************************************************)
NoReg == [isnone |-> TRUE, v |-> <<>>]
Reg(name) == [isnone |-> FALSE, v |-> name]

\* if current_reg:
Truthy(reg) == ~reg.isnone /\ reg.v # <<>>

\* One tuple per f.write: a short tag for the text, then the values put in it.
GuardLines == << <<"ifndef REG_MODEL">>, <<"define REG_MODEL">> >>

SepLine == <<"  //---">>
BuildOpenLine == <<"function void build;">>
EndFunctionLine == <<"endfunction">>
CtorEndLine == <<"endfunction (blank line)">>
EndClassLine == <<"endclass">>
FieldDeclLine(field_name) == <<"rand uvm_reg_field", field_name>>

\* if field_name and size and lsb is not None
Accept(r) == ~r.none /\ r.field_name # <<>> /\ r.size # 0

\* {default_value if pd.notna(default_value) else 0}
ResetOf(dv) == IF notna(dv) THEN dv.v ELSE 0

\* The create/configure writes of one field.
ConfigureLines(r, rw, dv) ==
    << <<"create", r.field_name>>,
       <<"configure(.parent(this)", r.field_name>>,
       <<".size", r.size>>,
       <<".lsb_pos", r.lsb>>,
       <<".msb_pos", r.msb>>,
       <<".access", rw>>,
       <<".volatile(0)">>,
       <<".reset", ResetOf(dv)>>,
       <<".has_reset(1)">>,
       <<".is_rand(1)">>,
       <<".individually_accessible(0)">> >>

\* for field in fields: ... rand uvm_reg_field (the first loop of the close)
RECURSIVE DeclLines(_)
DeclLines(fs) ==
    IF fs = <<>> THEN <<>>
    ELSE LET r == parse_field(Strip(Head(fs))) IN
         (IF Accept(r) THEN <<FieldDeclLine(r.field_name)>> ELSE <<>>)
             \o DeclLines(Tail(fs))

\* for field in fields: ... create/configure (the second loop of the close)
RECURSIVE BuildLines(_, _, _)
BuildLines(fs, rw, dv) ==
    IF fs = <<>> THEN <<>>
    ELSE LET r == parse_field(Strip(Head(fs))) IN
         (IF Accept(r) THEN ConfigureLines(r, rw, dv) ELSE <<>>)
             \o BuildLines(Tail(fs), rw, dv)

\* The single loop of the end-of-table close: declaration, then create/configure.
RECURSIVE LastLines(_, _, _)
LastLines(fs, rw, dv) ==
    IF fs = <<>> THEN <<>>
    ELSE LET r == parse_field(Strip(Head(fs))) IN
         (IF Accept(r) THEN <<FieldDeclLine(r.field_name)>> \o ConfigureLines(r, rw, dv)
          ELSE <<>>)
             \o LastLines(Tail(fs), rw, dv)

\* Closing the open register when the next register starts; rw and dv are
\* the loop's read_write and default_value at that point.
CloseRegister(fs, rw, dv) ==
    <<SepLine>> \o DeclLines(fs) \o <<SepLine, BuildOpenLine>>
        \o BuildLines(fs, rw, dv) \o <<EndFunctionLine, EndClassLine>>

\* Closing the open register after the loop.
FinalizeLast(fs, rw, dv) ==
    <<SepLine>> \o LastLines(fs, rw, dv) \o <<EndFunctionLine, EndClassLine>>

ClassHeaderLine(reg_name) == <<"class extends uvm_reg", reg_name>>

\* The class header and the constructor of a register that starts.
OpenRegister(reg_name) ==
    << ClassHeaderLine(reg_name),
       <<"uvm_object_utils", reg_name>>,
       SepLine,
       <<"  // Constructor">>,
       SepLine,
       <<"function new(string name)", reg_name>>,
       <<"super.new(name, 32, UVM_NO_COVERAGE)">>,
       CtorEndLine >>

\* (mutant) the list is not emptied when a register starts
FieldsAtStart_Kept(fs) == fs

\* fields = [] when a register starts
FieldsAtStart(fs) == <<>>

\* (mutant) a field text already in the list is not appended again
AppendField_SkipSeen(fs, fields_str) ==
    IF fields_str # <<>> /\ Strip(fields_str) \notin Range(fs)
    THEN Append(fs, Strip(fields_str)) ELSE fs

\* if fields_str: fields.append(fields_str.strip())
AppendField(fs, fields_str) ==
    IF fields_str # <<>> THEN Append(fs, Strip(fields_str)) ELSE fs

\* Series.dropna()
dropna(col) == SelectSeq(col, notna)

\* Series.unique(): the distinct values in order of first appearance
unique(col) ==
    LET first(k) == \A j \in 1..(k-1) : col[j] # col[k]
        RECURSIVE Keep(_)
        Keep(k) == IF k > Len(col) THEN <<>>
                   ELSE (IF first(k) THEN <<col[k]>> ELSE <<>>) \o Keep(k + 1)
    IN Keep(1)

\* df['register_name'].dropna().unique()
RegisterNames(table) ==
    LET names == unique(dropna([k \in DOMAIN table |-> table[k].register_name]))
    IN [k \in DOMAIN names |-> names[k].v]

ContainerBanner == <<"//------">>
ContainerClassLine == <<"class dma_reg_model extends uvm_reg_block">>
InstanceLine(reg_name) == <<"rand reg_", reg_name, Lower(reg_name)>>
AddRegLine(reg_name) == <<"default_map.add_reg", Lower(reg_name)>>
BuildCallLines(reg_name) ==
    << <<"reg_ = type_id::create", Lower(reg_name), reg_name, Lower(reg_name)>>,
       <<"reg_.build()", Lower(reg_name)>>,
       <<"reg_.configure(this)", Lower(reg_name)>> >>

RECURSIVE BuildCalls(_)
BuildCalls(names) ==
    IF names = <<>> THEN <<>> ELSE BuildCallLines(Head(names)) \o BuildCalls(Tail(names))

\* The register block class, written once after the loop: its opening lines,
ContainerOpenLines ==
    << ContainerBanner,
       <<"//	Register Block Definition">>,
       ContainerBanner,
       ContainerClassLine,
       <<"uvm_object_utils(dma_reg_model)">>,
       SepLine,
       <<"  // Register Instances">>,
       SepLine >>

\* its constructor and the opening of its build,
ContainerCtorLines ==
    << <<"(blank line)  //---">>,
       <<"  // Constructor">>,
       SepLine,
       <<"function new (string name)">>,
       <<"super.new(name, build_coverage(UVM_NO_COVERAGE))">>,
       CtorEndLine,
       SepLine,
       <<"  // Build Phase">>,
       SepLine,
       <<"function void build();">> >>

\* the creation of the map,
ContainerMapLines ==
    << <<"    //---">>,
       <<"    // Memory Map Creation and Register Map">>,
       <<"    //---">>,
       <<"default_map = create_map">> >>

\* and its closing lines.
ContainerCloseLines == << <<"lock_model()">>, EndFunctionLine, EndClassLine >>

\* (mutant) no register block class for a table without registers
ContainerBlock_SkipEmpty(names) ==
    IF names = <<>> THEN <<>>
    ELSE ContainerOpenLines
             \o [k \in DOMAIN names |-> InstanceLine(names[k])]
             \o ContainerCtorLines
             \o BuildCalls(names)
             \o ContainerMapLines
             \o [k \in DOMAIN names |-> AddRegLine(names[k])]
             \o ContainerCloseLines

ContainerBlock(names) ==
    ContainerOpenLines
        \o [k \in DOMAIN names |-> InstanceLine(names[k])]
        \o ContainerCtorLines
        \o BuildCalls(names)
        \o ContainerMapLines
        \o [k \in DOMAIN names |-> AddRegLine(names[k])]
        \o ContainerCloseLines

(***************************************************************************)
(* excel_to_uvm_ral, from the table read_excel returned to the return.     *)
(***************************************************************************)
ParseIdle == field_str = <<>> /\ result = NoneResult

InitFrom(tables) ==
    /\ df_header \in Headers
    /\ df \in tables
    /\ pc = "check_columns"
    /\ row_i = 1
    /\ current_reg = NoReg
    /\ fields = <<>>
    /\ read_write = ""
    /\ default_value = NumNaN
    /\ opened = FALSE
    /\ out = <<>>
    /\ printed = <<>>
    /\ ParseIdle

Init == InitFrom(TablesOf(Rows))

InitAccess == InitFrom(TablesOf(AccessRows))

\* if missing_columns: print(...); return
ColumnsMissing ==
    /\ pc = "check_columns"
    /\ missing_columns(StripHeader(df_header)) # <<>>
    /\ printed' = Append(printed, <<"Error: Missing required columns: {}",
                                    missing_columns(StripHeader(df_header))>>)
    /\ pc' = "returned"
    /\ UNCHANGED <<df_header, df, row_i, current_reg, fields, read_write,
                   default_value, opened, out, field_str, result>>

\* The columns are there: fill the text columns, open the output file and
\* write the include guard.
OpenOutput ==
    /\ pc = "check_columns"
    /\ missing_columns(StripHeader(df_header)) = <<>>
    /\ df' = [k \in DOMAIN df |->
                 [df[k] EXCEPT !.register_name = fillna_str(@),
                               !.fields = fillna_str(@)]]
    /\ opened' = TRUE
    /\ out' = GuardLines
    /\ current_reg' = NoReg
    /\ fields' = <<>>
    /\ row_i' = 1
    /\ pc' = "loop"
    /\ UNCHANGED <<df_header, read_write, default_value, printed, field_str, result>>

\* open(output_file, 'w') raises: except Exception prints it and returns.
OpenFails ==
    /\ pc = "check_columns"
    /\ missing_columns(StripHeader(df_header)) = <<>>
    /\ df' = [k \in DOMAIN df |->
                 [df[k] EXCEPT !.register_name = fillna_str(@),
                               !.fields = fillna_str(@)]]
    /\ printed' = Append(printed, <<"Error: {e}">>)
    /\ pc' = "returned"
    /\ UNCHANGED <<df_header, row_i, current_reg, fields, read_write,
                   default_value, opened, out, field_str, result>>

\* One iteration of  for _, row in df.iterrows().
ProcessRow ==
    /\ pc = "loop"
    /\ row_i <= Len(df)
    /\ LET row == df[row_i]
           reg_name == Strip(row.register_name.v)
           fields_str == row.fields.v
           closing == IF reg_name # <<>> /\ Truthy(current_reg)
                      THEN CloseRegister(fields, row.read_write, row.default_value)
                      ELSE <<>>
           opening == IF reg_name # <<>> THEN OpenRegister(reg_name) ELSE <<>>
           fs == IF reg_name # <<>> THEN FieldsAtStart(fields) ELSE fields
       IN /\ read_write' = row.read_write
          /\ default_value' = row.default_value
          /\ out' = out \o closing \o opening
          /\ current_reg' = IF reg_name # <<>> THEN Reg(reg_name) ELSE current_reg
          /\ fields' = AppendField(fs, fields_str)
    /\ row_i' = row_i + 1
    /\ UNCHANGED <<df_header, df, pc, opened, printed, field_str, result>>

\* The loop is over: if current_reg, write the last register out.
EndOfTable ==
    /\ pc = "loop"
    /\ row_i > Len(df)
    /\ out' = out \o (IF Truthy(current_reg)
                      THEN FinalizeLast(fields, read_write, default_value)
                      ELSE <<>>)
    /\ pc' = "container"
    /\ UNCHANGED <<df_header, df, row_i, current_reg, fields, read_write,
                   default_value, opened, printed, field_str, result>>

\* Generate the register block class.
EmitContainer ==
    /\ pc = "container"
    /\ out' = out \o ContainerBlock(RegisterNames(df))
    /\ pc' = "close"
    /\ UNCHANGED <<df_header, df, row_i, current_reg, fields, read_write,
                   default_value, opened, printed, field_str, result>>

\* The with block ends; print(f"UVM RAL file generated: {output_file}").
ReportGenerated ==
    /\ pc = "close"
    /\ printed' = Append(printed, <<"UVM RAL file generated: {output_file}">>)
    /\ pc' = "returned"
    /\ UNCHANGED <<df_header, df, row_i, current_reg, fields, read_write,
                   default_value, opened, out, field_str, result>>

Next ==
    \/ ColumnsMissing
    \/ OpenOutput
    \/ OpenFails
    \/ ProcessRow
    \/ EndOfTable
    \/ EmitContainer
    \/ ReportGenerated

Spec == Init /\ [][Next]_vars

SpecAccess == InitAccess /\ [][Next]_vars

(***************************************************************************)
(* parse_field on its own: one call on each argument.                      *)
(***************************************************************************)
InitParse ==
    /\ field_str \in ParseInputs
    /\ result = NoneResult
    /\ pc = "parse_call"
    /\ df_header = HeaderFull
    /\ df = <<>>
    /\ row_i = 1
    /\ current_reg = NoReg
    /\ fields = <<>>
    /\ read_write = ""
    /\ default_value = NumNaN
    /\ opened = FALSE
    /\ out = <<>>
    /\ printed = <<>>

CallParseField ==
    /\ pc = "parse_call"
    /\ result' = parse_field(field_str)
    /\ pc' = "parse_return"
    /\ UNCHANGED <<df_header, df, row_i, current_reg, fields, read_write,
                   default_value, opened, out, printed, field_str>>

NextParse == CallParseField

SpecParse == InitParse /\ [][NextParse]_vars

(***************************************************************************)
(* Reading a run: the table's register groups and the blocks of the        *)
(* output.                                                                 *)
(***************************************************************************)
Generated == pc = "returned" /\ printed = << <<"UVM RAL file generated: {output_file}">> >>

IsStart(k) == Strip(df[k].register_name.v) # <<>>

\* The register-start rows, in table order.
StartSeq == SelectSeq([k \in DOMAIN df |-> k], IsStart)

GroupFirst(g) == StartSeq[g]
GroupLast(g) == IF g < Len(StartSeq) THEN StartSeq[g + 1] - 1 ELSE Len(df)

\* The trimmed non-empty field cells of rows a..b, in order.
FieldCellsOf(a, b) ==
    LET nonEmpty(k) == df[k].fields.v # <<>>
        rows == SelectSeq([k \in 1..(b - a + 1) |-> a + k - 1], nonEmpty)
    IN [k \in DOMAIN rows |-> Strip(df[rows[k]].fields.v)]

GroupFields(g) == FieldCellsOf(GroupFirst(g), GroupLast(g))

\* Indices of the output lines with a given tag, ascending.
Idx(tag) ==
    LET has(j) == out[j][1] = tag IN SelectSeq([j \in DOMAIN out |-> j], has)

ClassIdx == Idx("class extends uvm_reg")
ContainerIdx == Idx("class dma_reg_model extends uvm_reg_block")

\* The last line before the container block (its class line follows three
\* banner lines), or the last line written when there is no container block.
RegionEnd == IF ContainerIdx = <<>> THEN Len(out) ELSE ContainerIdx[1] - 4

BlockFirst(b) == ClassIdx[b]
BlockLast(b) == IF b < Len(ClassIdx) THEN ClassIdx[b + 1] - 1 ELSE RegionEnd
BlockLines(b) == SubSeq(out, BlockFirst(b), BlockLast(b))

\* The second element of the lines with a given tag, in order.
Tagged(lines, tag) ==
    LET has(ln) == ln[1] = tag
        sel == SelectSeq(lines, has)
    IN [k \in DOMAIN sel |-> sel[k][2]]

\* Names parsed from the texts whose parse passes ok, in order.
FieldNames(texts, ok(_)) ==
    LET parsed == [k \in DOMAIN texts |-> parse_field(texts[k])]
        sel == SelectSeq(parsed, ok)
    IN [k \in DOMAIN sel |-> sel[k].field_name]

\* Names of the field texts the generator accepts.
AcceptedNames(texts) == FieldNames(texts, Accept)

\* Names of the field texts with a non-empty parse and a positive width.
PositiveWidth(r) == ~r.none /\ r.field_name # <<>> /\ r.size >= 1
PositiveNames(texts) == FieldNames(texts, PositiveWidth)

(***************************************************************************)
(* C1 to C10.                                                              *)
(***************************************************************************)

\* C1: parse_field on 'Identifier [M:L]' with M >= L >= 0 returns the
\* identifier, width M-L+1, lsb L and msb M (also when L = 0).
C1_ParseRange ==
    pc = "parse_return" =>
        \A id \in Identifiers, gap \in Gaps, m \in 0..MaxBit, l \in 0..MaxBit :
            (m >= l /\ field_str = id \o gap \o RangeText(m, l)) =>
                result = [none |-> FALSE, field_name |-> id,
                          size |-> m - l + 1, lsb |-> l, msb |-> m]

\* C2: in every register block of a finished run, each configure block's
\* .access is the Read/Write cell and .reset the Default value cell (0 when
\* empty) of the row that started that register.
C2_HeaderRowAccess ==
    Generated =>
        \A g \in 1..Len(StartSeq) :
            LET head == df[GroupFirst(g)]
                acc == Tagged(BlockLines(g), ".access")
                rst == Tagged(BlockLines(g), ".reset")
            IN /\ \A k \in DOMAIN acc : acc[k] = head.read_write
               /\ \A k \in DOMAIN rst :
                      rst[k] = IF head.default_value.isna THEN 0 ELSE head.default_value.v

\* C3: closing the register that is open at the end of the table writes the
\* lines that closing it before a following register would write: separator,
\* declarations, separator, build opener, create/configure blocks,
\* endfunction, endclass.
C3_SameCloseAtEnd ==
    (pc = "container" /\ Truthy(current_reg)) =>
        LET expected == CloseRegister(fields, read_write, default_value)
            n == Len(expected)
        IN /\ Len(out) >= n
           /\ SubSeq(out, Len(out) - n + 1, Len(out)) = expected

StartNames == [g \in DOMAIN StartSeq |-> Strip(df[StartSeq[g]].register_name.v)]
\* C4: the container's register list is the trimmed non-empty names of the
\* register-start rows, each once, in first-seen order.
C4_ContainerNames ==
    Generated =>
        LET expected == unique(StartNames)
            lines == SubSeq(out, RegionEnd + 1, Len(out))
        IN /\ Tagged(lines, "rand reg_") = expected
           /\ Len(Tagged(lines, "reg_ = type_id::create")) = Len(expected)
           /\ Len(Tagged(lines, "default_map.add_reg")) = Len(expected)

\* C5: the fields a register block declares and configures are its group's
\* field texts with a non-empty parse and a positive width, in input order.
C5_PositiveWidthFields ==
    Generated =>
        \A g \in 1..Len(StartSeq) :
            /\ Tagged(BlockLines(g), "rand uvm_reg_field") = PositiveNames(GroupFields(g))
            /\ Tagged(BlockLines(g), "create") = PositiveNames(GroupFields(g))

\* C6: a register group without a parseable field is written as a whole
\* class block: header, constructor, empty declaration area, build opener,
\* endfunction, endclass.
C6_EmptyGroupBlock ==
    Generated =>
        \A g \in 1..Len(StartSeq) :
            AcceptedNames(GroupFields(g)) = <<>> =>
                BlockLines(g) = OpenRegister(StartNames[g])
                    \o <<SepLine, SepLine, BuildOpenLine, EndFunctionLine, EndClassLine>>

FromFirstStart ==
    IF StartSeq = <<>> THEN <<>> ELSE FieldCellsOf(StartSeq[1], Len(df))
\* C7: field cells of rows before the first register-start row are nowhere
\* in the output: the declarations and the create/configure blocks written
\* are those of the rows from the first register-start row on.
C7_LeadingRowsDropped ==
    Generated =>
        /\ Tagged(out, "rand uvm_reg_field") = AcceptedNames(FromFirstStart)
        /\ Tagged(out, "create") = AcceptedNames(FromFirstStart)
        /\ Tagged(out, "configure(.parent(this)") = AcceptedNames(FromFirstStart)

\* Witness of C7: a finished run whose first row has an accepted field text
\* and no register name, and whose table starts a register later.
C7_Witness ==
    /\ Generated
    /\ Len(df) >= 2
    /\ ~IsStart(1)
    /\ Accept(parse_field(Strip(df[1].fields.v)))
    /\ StartSeq # <<>>
    /\ AcceptedNames(FromFirstStart) # <<>>

SevenColumns ==
    <<COL_REGISTER_NAME, COL_OFFSET, COL_READ_WRITE, COL_FIELDS,
      COL_DEFAULT_VALUE, COL_RESET_VALUE, COL_DESCRIPTION>>
HeaderNames == {Strip(df_header[k].v) : k \in {j \in DOMAIN df_header : ~df_header[j].isna}}
Absent(col) == col \notin HeaderNames
\* C8: when a required column is not among the trimmed header cells, the run
\* reports the missing columns, never opens or writes the output file, and
\* returns.
C8_MissingColumns ==
    LET names == HeaderNames
        absent(col) == col \notin names
        missing == SelectSeq(SevenColumns, absent)
    IN missing # <<>> =>
        /\ ~opened
        /\ out = <<>>
        /\ pc \in {"check_columns", "returned"}
        /\ pc = "returned" =>
               printed = << <<"Error: Missing required columns: {}", missing>> >>

\* Witness of C8: the run has returned on a header without Offset.
C8_Witness ==
    /\ pc = "returned"
    /\ Absent(COL_OFFSET)
    /\ Len(df) >= 1
    /\ printed # <<>>

LastStartBefore(i) ==
    LET before(g) == StartSeq[g] < i
        gs == SelectSeq([g \in DOMAIN StartSeq |-> g], before)
    IN IF gs = <<>> THEN 0 ELSE StartSeq[gs[Len(gs)]]
\* C9: one class block per register-start row, in input order, names not
\* de-duplicated; each non-empty field cell from the first register-start
\* row on is in the field list of the block of the latest register-start
\* row at or before it, and in no other.
C9_GroupsInOrder ==
    /\ pc = "loop" =>
          LET starts == StartSeq
              seen == Cardinality({g \in DOMAIN starts : starts[g] < row_i})
              last == IF seen = 0 THEN 0 ELSE starts[seen]
          IN /\ Tagged(out, "class extends uvm_reg")
                    = [g \in 1..seen |-> Strip(df[starts[g]].register_name.v)]
             /\ last = LastStartBefore(row_i)
             /\ last = 0 => current_reg = NoReg
             /\ last # 0 =>
                   /\ current_reg = Reg(Strip(df[last].register_name.v))
                   /\ fields = FieldCellsOf(last, row_i - 1)
    /\ Generated =>
          /\ Tagged(out, "class extends uvm_reg") = StartNames
          /\ \A g \in 1..Len(StartSeq) :
                LET lines == BlockLines(g)
                    names == AcceptedNames(GroupFields(g))
                IN /\ Tagged(lines, "rand uvm_reg_field") = names
                   /\ Tagged(lines, "create") = names
                   /\ lines[Len(lines)] = EndClassLine

\* Witness of C9: a finished run with the same name starting two groups, the
\* first group holding the field cells of two rows.
C9_Witness ==
    /\ Generated
    /\ Len(StartSeq) = 2
    /\ StartNames[1] = StartNames[2]
    /\ Len(GroupFields(1)) = 2
    /\ Len(AcceptedNames(GroupFields(1))) = 2
    /\ Len(ClassIdx) = 2

RegisterOnlyTags ==
    {"class extends uvm_reg", "uvm_object_utils", "function new(string name)",
     "super.new(name, 32, UVM_NO_COVERAGE)", "function void build;",
     "rand uvm_reg_field", "create", "configure(.parent(this)", ".size", ".lsb_pos",
     ".msb_pos", ".access", ".volatile(0)", ".reset", ".has_reset(1)", ".is_rand(1)",
     ".individually_accessible(0)"}
ContainerOnlyTags ==
    {"//------", "//	Register Block Definition",
     "class dma_reg_model extends uvm_reg_block", "uvm_object_utils(dma_reg_model)",
     "  // Register Instances", "rand reg_", "(blank line)  //---",
     "function new (string name)", "super.new(name, build_coverage(UVM_NO_COVERAGE))",
     "  // Build Phase", "function void build();", "reg_ = type_id::create",
     "reg_.build()", "reg_.configure(this)", "    //---",
     "    // Memory Map Creation and Register Map", "default_map = create_map",
     "default_map.add_reg", "lock_model()"}
GuardTags == {"ifndef REG_MODEL", "define REG_MODEL"}
\* C10: the output is the include guard once, then the register class
\* blocks, then one container block: no register line after the container
\* begins, and a finished run has exactly one container block, also when no
\* row starts a register.
C10_OutputOrder ==
    LET cidx == ContainerIdx
        last == IF cidx = <<>> THEN Len(out) ELSE cidx[1] - 4
    IN /\ last = RegionEnd
       /\ opened =>
             /\ Len(out) >= 2
             /\ SubSeq(out, 1, 2) = GuardLines
             /\ \A j \in 3..Len(out) : out[j][1] \notin GuardTags
       /\ Len(cidx) <= 1
       /\ \A j \in 3..last : out[j][1] \notin ContainerOnlyTags
       /\ \A j \in (last + 1)..Len(out) : out[j][1] \notin RegisterOnlyTags
       /\ (last >= 3 /\ pc # "loop") =>
             /\ out[3][1] = "class extends uvm_reg"
             /\ out[last] = EndClassLine
       /\ pc \in {"loop", "container"} => cidx = <<>>
       /\ Generated =>
             /\ Len(cidx) = 1
             /\ Len(Idx("//------")) = 2
             /\ out[last + 1] = <<"//------">>
             /\ out[Len(out)] = EndClassLine
             /\ Len(Idx("lock_model()")) = 1

\* Witness of C10: a finished run with two register blocks before the
\* container block.
C10_Witness ==
    /\ Generated
    /\ Len(ClassIdx) = 2
    /\ Len(ContainerIdx) = 1
    /\ ClassIdx[2] < ContainerIdx[1]

=============================================================================
